---- MODULE Spec2Model ----
(***************************************************************************)
(* State-machine model of RecordUploadManager                              *)
(* (src/record_upload_manager.py): the session registry driven by          *)
(* handle_update, the per-session upload_video coroutine, the              *)
(* video_uploader and comment_poster threads, the save file written by     *)
(* save_progress, and process restart through __init__.                    *)
(***************************************************************************)
EXTENDS Integers, Sequences, FiniteSets, TLC

VARIABLES
    now,                 \* wall clock / loop clock, in seconds
    ticks,               \* number of clock advances so far (bounded)
    sessions,            \* self.sessions: insertion-ordered <<[sid, obj]>>
    objs,                \* the Session objects, by reference (index)
    wfs,                 \* the upload_video coroutines launched so far
    video_upload_queue,  \* self.video_upload_queue
    comment_post_queue,  \* self.comment_post_queue
    save,                \* self.save (TaskSave), in memory
    file,                \* the save file on disk
    save_lock,           \* self.save_lock: "free" or the holder
    up,                  \* video_uploader thread: position and locals
    cp,                  \* comment_poster thread: position and locals
    dropped,             \* the tasks reported "Upload failed too many times"
    hres,                \* how the last handle_update call ended: "ok",
                         \* "dropped" (line 187) or "raised" (line 179)
    ioerrs,              \* save_progress I/O errors so far (bounded)
    restarts             \* process restarts so far (bounded)

vars == <<now, ticks, sessions, objs, wfs, video_upload_queue,
          comment_post_queue, save, file, save_lock, up, cp, dropped,
          hres, ioerrs, restarts>>

----------------------------------------------------------------------------
(* Bounds of the model.                                                    *)
MaxSessions == 2
MaxRooms == 3
MaxWorkflows == 2
MaxTicks == 2
MaxVideos == 1
MaxBv == 2
MaxIOErrors == 1
MaxRestarts == 1

(* Program constants.                                                      *)
CONTINUE_SESSION_MINUTES == 5
MaxTrial == 5

SecondsPerDay == 24 * 60 * 60

SessionIds == 1 .. MaxSessions
RoomIds == 1 .. MaxRooms
BvIds == 1 .. MaxBv
(* Clock advances the model takes: two minutes, and four minutes less than *)
(* one day.                                                                *)
TickSteps == {120, SecondsPerDay - 240}

None == -1
EventTypes == {"SessionStarted", "FileClosed", "SessionEnded", "Other"}
Events == [type : EventTypes, room : RoomIds, sid : SessionIds]

----------------------------------------------------------------------------
(* Configuration: self.config.rooms, a list of room records.  Room 1 has   *)
(* an uploader account, room 2 has none, any other room is not listed.     *)
ConfigRooms == << [id |-> 1, uploader |-> 1], [id |-> 2, uploader |-> None] >>

(* upload_video lines 102-105: the last listed room with this id.          *)
FindRoomConfig(room_id) ==
    LET hits == {i \in 1 .. Len(ConfigRooms) : ConfigRooms[i].id = room_id}
    IN  IF hits = {} THEN None
        ELSE CHOOSE i \in hits : \A j \in hits : j <= i

----------------------------------------------------------------------------
(* The registry.                                                           *)
Keys == {sessions[i].sid : i \in 1 .. Len(sessions)}
Lookup(sid) ==
    LET i == CHOOSE j \in 1 .. Len(sessions) : sessions[j].sid = sid
    IN  sessions[i].obj

(* (session.end_time - datetime.datetime.now()).seconds: the seconds       *)
(* field of a normalised timedelta, which lies in 0 .. 86399 also for a    *)
(* negative difference.                                                    *)
TimedeltaSeconds(end_time, t) == (end_time - t) % SecondsPerDay

(* Line 178-179 for one session of the registry; seconds / 60 < 5 is       *)
(* compared after multiplying both sides by 60.                            *)
InWindow(o, t) ==
    TimedeltaSeconds(objs[o].end_time, t) < CONTINUE_SESSION_MINUTES * 60

(* The for loop of lines 177-183 from position i on: the first session of  *)
(* the room decides.  end_time None makes the subtraction raise TypeError. *)
RECURSIVE Scan(_, _)
Scan(i, room_id) ==
    IF i > Len(sessions) THEN [kind |-> "none", obj |-> 0]
    ELSE LET o == sessions[i].obj
         IN  IF objs[o].room_id # room_id THEN Scan(i + 1, room_id)
             ELSE IF objs[o].end_time = None THEN [kind |-> "raise", obj |-> o]
             ELSE IF InWindow(o, now) THEN [kind |-> "match", obj |-> o]
             ELSE Scan(i + 1, room_id)

WfFinal == {"aborted", "failed", "done", "cancelled"}

(* session.upload_task.cancel(): a finished future ignores it.             *)
CancelHandle(w) ==
    IF w # None /\ wfs[w].pc \notin WfFinal
    THEN [wfs EXCEPT ![w].cancel = TRUE]
    ELSE wfs

(* Session(update_json)                                                    *)
NewSession(e) ==
    [room_id |-> e.room, session_id |-> e.sid, end_time |-> None,
     videos |-> 0, upload_task |-> None]

(* Session.process_update: SessionEnded records end_time.                  *)
process_update(s, e) ==
    IF e.type = "SessionEnded" THEN [s EXCEPT !.end_time = now] ELSE s

QueueVars == <<video_upload_queue, comment_post_queue>>
WorkerVars == <<save, file, save_lock, up, cp, dropped, ioerrs, restarts>>

(* handle_update, lines 176-184.                                           *)
HandleSessionStarted(e) ==
    LET r == Scan(1, e.room)
    IN  /\ e.type = "SessionStarted"
        /\ e.sid \notin Keys
        /\ UNCHANGED <<now, ticks, QueueVars, WorkerVars>>
        /\ CASE r.kind = "match" ->
                  /\ sessions' = Append(sessions, [sid |-> e.sid, obj |-> r.obj])
                  /\ wfs' = CancelHandle(objs[r.obj].upload_task)
                  /\ objs' = objs
                  /\ hres' = "ok"
             [] r.kind = "raise" ->
                  /\ UNCHANGED <<sessions, wfs, objs>>
                  /\ hres' = "raised"
             [] OTHER ->
                  /\ sessions' = Append(sessions,
                                        [sid |-> e.sid, obj |-> Len(objs) + 1])
                  /\ objs' = Append(objs, NewSession(e))
                  /\ wfs' = wfs
                  /\ hres' = "ok"

(* handle_update, lines 189-196, for a session the registry holds.         *)
HandleKnown(e, o) ==
    LET s == process_update(objs[o], e)
    IN  CASE e.type = "FileClosed" ->
               /\ s.videos < MaxVideos
               /\ objs' = [objs EXCEPT ![o] = [s EXCEPT !.videos = s.videos + 1]]
               /\ wfs' = wfs
               /\ hres' = "ok"
          [] e.type = "SessionEnded" ->
               /\ Len(wfs) < MaxWorkflows
               /\ wfs' = Append(wfs, [obj |-> o, pc |-> "start",
                                      cancel |-> FALSE, early |-> FALSE])
               /\ objs' = [objs EXCEPT ![o] =
                              [s EXCEPT !.upload_task = Len(wfs) + 1]]
               /\ hres' = "ok"
          [] OTHER ->
               /\ objs' = [objs EXCEPT ![o] = s]
               /\ wfs' = wfs
               /\ hres' = "ok"

(* HandleOther with the lookup of line 186 replaced by a registration of   *)
(* the unknown session_id.                                                 *)
HandleOtherRegisters(e) ==
    /\ e.type # "SessionStarted"
    /\ UNCHANGED <<now, ticks, QueueVars, WorkerVars>>
    /\ IF e.sid \notin Keys
       THEN /\ sessions' = Append(sessions,
                                  [sid |-> e.sid, obj |-> Len(objs) + 1])
            /\ objs' = Append(objs, NewSession(e))
            /\ wfs' = wfs
            /\ hres' = "ok"
       ELSE /\ sessions' = sessions
            /\ HandleKnown(e, Lookup(e.sid))

(* handle_update, lines 185-196.                                           *)
HandleOther(e) ==
    /\ e.type # "SessionStarted"
    /\ sessions' = sessions
    /\ UNCHANGED <<now, ticks, QueueVars, WorkerVars>>
    /\ IF e.sid \notin Keys
       THEN /\ hres' = "dropped"
            /\ UNCHANGED <<objs, wfs>>
       ELSE HandleKnown(e, Lookup(e.sid))

handle_update(e) == HandleSessionStarted(e) \/ HandleOther(e)

----------------------------------------------------------------------------
(* upload_video.  A coroutine is at "start" (scheduled, not yet run), at   *)
(* one of its three awaits, or finished.  The field early says whether     *)
(* the local early_upload_task is not None.                                *)

(* UploadTask(...) of lines 130-143 and 151-164; trial starts at 0.        *)
UploadTask(w, danmaku) ==
    [run |-> restarts, wf |-> w,
     session_id |-> objs[wfs[w].obj].session_id,
     danmaku |-> danmaku, trial |-> 0]

(* CommentTask.from_upload_task                                            *)
from_upload_task(t) ==
    [run |-> t.run, wf |-> t.wf, session_id |-> t.session_id,
     danmaku |-> t.danmaku]

SessVars == <<now, ticks, sessions, objs, hres>>

(* WfStart without the test of lines 109-111.                              *)
WfStartAnyUploader(w) ==
    LET s == objs[wfs[w].obj]
        room_config == FindRoomConfig(s.room_id)
    IN  /\ wfs[w].pc = "start"
        /\ wfs' = [wfs EXCEPT ![w].pc =
                     IF room_config = None THEN "aborted"
                     ELSE IF s.videos = 0 THEN "failed"
                     ELSE "gen_early"]
        /\ UNCHANGED <<SessVars, QueueVars, WorkerVars>>

(* Lines 102-127: up to the first await.                                   *)
WfStart(w) ==
    LET s == objs[wfs[w].obj]
        room_config == FindRoomConfig(s.room_id)
    IN  /\ wfs[w].pc = "start"
        /\ wfs' = [wfs EXCEPT ![w].pc =
                     IF room_config = None THEN "aborted"
                     ELSE IF ConfigRooms[room_config].uploader = None
                          THEN "aborted"
                     ELSE IF s.videos = 0 THEN "failed"    \* videos[0]
                     ELSE "gen_early"]
        /\ UNCHANGED <<SessVars, QueueVars, WorkerVars>>

(* Lines 128-145: gen_early_video returns, with or without an early cut.   *)
WfEarlyDone(w, produced) ==
    /\ wfs[w].pc = "gen_early"
    /\ IF produced
       THEN /\ video_upload_queue' =
                   Append(video_upload_queue, UploadTask(w, FALSE))
            /\ wfs' = [wfs EXCEPT ![w].pc = "sleep", ![w].early = TRUE]
       ELSE /\ video_upload_queue' = video_upload_queue
            /\ wfs' = [wfs EXCEPT ![w].pc = "sleep"]
    /\ UNCHANGED <<SessVars, comment_post_queue, WorkerVars>>

(* WfSleepDone without the test of line 146.                               *)
WfSleepDoneAlways(w) ==
    /\ wfs[w].pc = "sleep"
    /\ comment_post_queue' =
           Append(comment_post_queue, from_upload_task(UploadTask(w, FALSE)))
    /\ wfs' = [wfs EXCEPT ![w].pc = "gen_danmaku"]
    /\ UNCHANGED <<SessVars, video_upload_queue, WorkerVars>>

(* Lines 146-150: the sleep is over.                                       *)
WfSleepDone(w) ==
    /\ wfs[w].pc = "sleep"
    /\ comment_post_queue' =
           IF wfs[w].early
           THEN Append(comment_post_queue,
                       from_upload_task(UploadTask(w, FALSE)))
           ELSE comment_post_queue
    /\ wfs' = [wfs EXCEPT ![w].pc = "gen_danmaku"]
    /\ UNCHANGED <<SessVars, video_upload_queue, WorkerVars>>

(* Lines 151-171: gen_danmaku_video returns.                               *)
WfDanmakuDone(w) ==
    /\ wfs[w].pc = "gen_danmaku"
    /\ video_upload_queue' = Append(video_upload_queue, UploadTask(w, TRUE))
    /\ comment_post_queue' =
           IF ~wfs[w].early
           THEN Append(comment_post_queue,
                       from_upload_task(UploadTask(w, TRUE)))
           ELSE comment_post_queue
    /\ wfs' = [wfs EXCEPT ![w].pc = "done"]
    /\ UNCHANGED <<SessVars, WorkerVars>>

(* The cancellation requested by handle_update reaches the coroutine.  It  *)
(* is delivered by a callback queued on the event loop after the           *)
(* coroutine's first step was queued, so it lands at one of the awaits.    *)
WfSuspended == {"gen_early", "sleep", "gen_danmaku"}

(* WfCancelled that also takes the coroutine's tasks off the upload queue. *)
WfCancelledRevoke(w) ==
    /\ wfs[w].cancel
    /\ wfs[w].pc \in WfSuspended
    /\ wfs' = [wfs EXCEPT ![w].pc = "cancelled"]
    /\ video_upload_queue' =
           SelectSeq(video_upload_queue, LAMBDA t : t.wf # w)
    /\ UNCHANGED <<SessVars, comment_post_queue, WorkerVars>>

WfCancelled(w) ==
    /\ wfs[w].cancel
    /\ wfs[w].pc \in WfSuspended
    /\ wfs' = [wfs EXCEPT ![w].pc = "cancelled"]
    /\ UNCHANGED <<SessVars, QueueVars, WorkerVars>>

upload_video(w) ==
    \/ WfStart(w)
    \/ \E produced \in BOOLEAN : WfEarlyDone(w, produced)
    \/ WfSleepDone(w)
    \/ WfDanmakuDone(w)

----------------------------------------------------------------------------
(* TaskSave and the save file.                                             *)

(* TaskSave(): an empty session_id_map and no active comment task.  The    *)
(* map is a function on all session ids; None stands for "no such key".    *)
TaskSave ==
    [session_id_map |-> [k \in SessionIds |-> None],
     active_comment_tasks |-> << >>]

(* TaskSave.to_dict and TaskSave.from_dict: the two top-level fields of    *)
(* the persisted document.                                                 *)
to_dict(ts) ==
    << ts.session_id_map, ts.active_comment_tasks >>
from_dict(d) ==
    [session_id_map |-> d[1], active_comment_tasks |-> d[2]]

(* save_progress, lines 51-53, when open and dump succeed.                 *)
save_progress(ts) == [state |-> "ok", data |-> to_dict(ts)]

(* save_progress when it raises: open(..., 'w') failed and the file is as  *)
(* before, or the file was truncated and the dump did not complete.        *)
save_progress_failed(truncated) ==
    IF truncated THEN [state |-> "corrupt", data |-> to_dict(TaskSave)]
    ELSE file

(* The identity of an UploadTask or CommentTask object.                    *)
TaskId(t) == <<t.run, t.wf, t.danmaku>>

NoTask == [run |-> 0, wf |-> 0, session_id |-> 0, danmaku |-> FALSE,
           trial |-> 0]
UpIdle == [pc |-> "get", task |-> NoTask, bv_id |-> None]
CpIdle == [pc |-> "lock1", idx |-> 0, task_to_remove |-> {}]

RegVars == <<now, ticks, sessions, objs, wfs, hres>>

----------------------------------------------------------------------------
(* video_uploader, lines 55-71.                                            *)

(* UpGet that reads the head of the queue and leaves it there.             *)
UpGetPeek ==
    /\ up.pc = "get"
    /\ video_upload_queue # << >>
    /\ up' = [up EXCEPT !.pc = "upload", !.task = Head(video_upload_queue)]
    /\ UNCHANGED <<RegVars, QueueVars, save, file, save_lock, cp, dropped,
                   ioerrs, restarts>>

(* Line 58: queue.get() blocks on an empty queue.                          *)
UpGet ==
    /\ up.pc = "get"
    /\ video_upload_queue # << >>
    /\ up' = [up EXCEPT !.pc = "upload", !.task = Head(video_upload_queue)]
    /\ video_upload_queue' = Tail(video_upload_queue)
    /\ UNCHANGED <<RegVars, comment_post_queue, save, file, save_lock, cp,
                   dropped, ioerrs, restarts>>

(* Line 60: upload_task.upload returns a published id.                     *)
UpUploadOk(b) ==
    /\ up.pc = "upload"
    /\ up' = [up EXCEPT !.pc = "lock", !.bv_id = b]
    /\ UNCHANGED <<RegVars, QueueVars, save, file, save_lock, cp, dropped,
                   ioerrs, restarts>>

(* Line 60: upload_task.upload raises.                                     *)
UpUploadFail ==
    /\ up.pc = "upload"
    /\ up' = [up EXCEPT !.pc = "except"]
    /\ UNCHANGED <<RegVars, QueueVars, save, file, save_lock, cp, dropped,
                   ioerrs, restarts>>

(* Lines 61-62: take the lock and write the map.                           *)
UpLock ==
    /\ up.pc = "lock"
    /\ save_lock = "free"
    /\ save_lock' = "uploader"
    /\ save' = [save EXCEPT !.session_id_map[up.task.session_id] = up.bv_id]
    /\ up' = [up EXCEPT !.pc = "persist"]
    /\ UNCHANGED <<RegVars, QueueVars, file, cp, dropped, ioerrs, restarts>>

(* UpPersistOk without the write of line 63.                               *)
UpPersistOkBatched ==
    /\ up.pc = "persist"
    /\ save_lock' = "free"
    /\ up' = UpIdle
    /\ UNCHANGED <<RegVars, QueueVars, save, file, cp, dropped, ioerrs,
                   restarts>>

(* Line 63 and the end of the with block.                                  *)
UpPersistOk ==
    /\ up.pc = "persist"
    /\ file' = save_progress(save)
    /\ save_lock' = "free"
    /\ up' = UpIdle
    /\ UNCHANGED <<RegVars, QueueVars, save, cp, dropped, ioerrs, restarts>>

(* Line 63 raising: the with block releases the lock and the exception is  *)
(* caught at line 64.                                                      *)
UpPersistFail(truncated) ==
    /\ up.pc = "persist"
    /\ ioerrs < MaxIOErrors
    /\ ioerrs' = ioerrs + 1
    /\ file' = save_progress_failed(truncated)
    /\ save_lock' = "free"
    /\ up' = [up EXCEPT !.pc = "except"]
    /\ UNCHANGED <<RegVars, QueueVars, save, cp, dropped, restarts>>

(* Line 65 with <= for <.                                                  *)
MayRetryOffByOne(t) == t.trial <= MaxTrial

(* Line 65.                                                                *)
MayRetry(t) == t.trial < MaxTrial

(* The except block with the put of line 67 outside the if.                *)
UpExceptAlwaysPut ==
    /\ up.pc = "except"
    /\ video_upload_queue' =
           Append(video_upload_queue,
                  IF MayRetry(up.task)
                  THEN [up.task EXCEPT !.trial = up.task.trial + 1]
                  ELSE up.task)
    /\ dropped' = IF MayRetry(up.task) THEN dropped
                  ELSE dropped \cup {up.task}
    /\ up' = UpIdle
    /\ UNCHANGED <<RegVars, comment_post_queue, save, file, save_lock, cp,
                   ioerrs, restarts>>

(* The except block with the put of line 67 at the head of the queue.      *)
UpExceptPutFront ==
    /\ up.pc = "except"
    /\ IF MayRetry(up.task)
       THEN /\ video_upload_queue' =
                   << [up.task EXCEPT !.trial = up.task.trial + 1] >>
                       \o video_upload_queue
            /\ dropped' = dropped
       ELSE /\ video_upload_queue' = video_upload_queue
            /\ dropped' = dropped \cup {up.task}
    /\ up' = UpIdle
    /\ UNCHANGED <<RegVars, comment_post_queue, save, file, save_lock, cp,
                   ioerrs, restarts>>

(* Lines 64-71: the except block.                                          *)
UpExcept ==
    /\ up.pc = "except"
    /\ IF MayRetry(up.task)
       THEN /\ video_upload_queue' =
                   Append(video_upload_queue,
                          [up.task EXCEPT !.trial = up.task.trial + 1])
            /\ dropped' = dropped
       ELSE /\ video_upload_queue' = video_upload_queue
            /\ dropped' = dropped \cup {up.task}
    /\ up' = UpIdle
    /\ UNCHANGED <<RegVars, comment_post_queue, save, file, save_lock, cp,
                   ioerrs, restarts>>

video_uploader ==
    \/ UpGet
    \/ \E b \in BvIds : UpUploadOk(b)
    \/ UpUploadFail
    \/ UpLock
    \/ UpPersistOk
    \/ \E truncated \in BOOLEAN : UpPersistFail(truncated)
    \/ UpExcept

----------------------------------------------------------------------------
(* comment_poster, lines 73-99.                                            *)

(* CommentTask.post_comment(session_id_map): True, False or an exception;  *)
(* without a published id for the session the attempt cannot succeed.      *)
PostOutcomes(t, session_id_map) ==
    IF session_id_map[t.session_id] = None THEN {"false", "raise"}
    ELSE {"true", "false", "raise"}

(* Line 76.                                                                *)
CpLock ==
    /\ cp.pc = "lock1"
    /\ save_lock = "free"
    /\ save_lock' = "commenter"
    /\ cp' = [cp EXCEPT !.pc = "drain"]
    /\ UNCHANGED <<RegVars, QueueVars, save, file, up, dropped, ioerrs,
                   restarts>>

(* Lines 77-79, one iteration.                                             *)
CpDrainOk ==
    /\ cp.pc = "drain"
    /\ comment_post_queue # << >>
    /\ save' = [save EXCEPT !.active_comment_tasks =
                    Append(@, Head(comment_post_queue))]
    /\ comment_post_queue' = Tail(comment_post_queue)
    /\ file' = save_progress(save')
    /\ UNCHANGED <<RegVars, video_upload_queue, save_lock, up, cp, dropped,
                   ioerrs, restarts>>

(* Lines 77-79 with save_progress raising: the exception leaves the with   *)
(* block and the while loop, which ends the thread.                        *)
CpDrainFail(truncated) ==
    /\ cp.pc = "drain"
    /\ comment_post_queue # << >>
    /\ ioerrs < MaxIOErrors
    /\ ioerrs' = ioerrs + 1
    /\ save' = [save EXCEPT !.active_comment_tasks =
                    Append(@, Head(comment_post_queue))]
    /\ comment_post_queue' = Tail(comment_post_queue)
    /\ file' = save_progress_failed(truncated)
    /\ save_lock' = "free"
    /\ cp' = [cp EXCEPT !.pc = "dead"]
    /\ UNCHANGED <<RegVars, video_upload_queue, up, dropped, restarts>>

(* Line 77 on an empty queue, and lines 80-82.                             *)
CpDrainEnd ==
    /\ cp.pc = "drain"
    /\ comment_post_queue = << >>
    /\ save_lock' = "free"
    /\ cp' = IF Len(save.active_comment_tasks) # 0
             THEN [pc |-> "post", idx |-> 1, task_to_remove |-> {}]
             ELSE [cp EXCEPT !.pc = "sleep"]
    /\ UNCHANGED <<RegVars, QueueVars, save, file, up, dropped, ioerrs,
                   restarts>>

(* Lines 83-86, one iteration; an exception goes to line 95.               *)
CpPost(outcome) ==
    /\ cp.pc = "post"
    /\ outcome \in PostOutcomes(save.active_comment_tasks[cp.idx],
                                 save.session_id_map)
    /\ cp' = IF outcome = "raise" THEN [cp EXCEPT !.pc = "sleep"]
             ELSE [pc |-> IF cp.idx = Len(save.active_comment_tasks)
                          THEN "lock2" ELSE "post",
                   idx |-> cp.idx + 1,
                   task_to_remove |->
                       IF outcome = "true"
                       THEN cp.task_to_remove \cup {cp.idx}
                       ELSE cp.task_to_remove]
    /\ UNCHANGED <<RegVars, QueueVars, save, file, save_lock, up, dropped,
                   ioerrs, restarts>>

(* Lines 89-93: the list without the indices of task_to_remove.            *)
RECURSIVE Without(_, _, _)
Without(tasks, idx, task_to_remove) ==
    IF idx > Len(tasks) THEN << >>
    ELSE (IF idx \in task_to_remove THEN << >> ELSE << tasks[idx] >>)
         \o Without(tasks, idx + 1, task_to_remove)

(* CpLock2 without the with of line 88.                                    *)
CpLock2Unlocked ==
    /\ cp.pc = "lock2"
    /\ save' = [save EXCEPT !.active_comment_tasks =
                    Without(@, 1, cp.task_to_remove)]
    /\ cp' = [cp EXCEPT !.pc = "persist"]
    /\ UNCHANGED <<RegVars, QueueVars, file, save_lock, up, dropped, ioerrs,
                   restarts>>

(* Lines 87-93: task_to_remove != 0 holds for every list.                  *)
CpLock2 ==
    /\ cp.pc = "lock2"
    /\ save_lock = "free"
    /\ save_lock' = "commenter"
    /\ save' = [save EXCEPT !.active_comment_tasks =
                    Without(@, 1, cp.task_to_remove)]
    /\ cp' = [cp EXCEPT !.pc = "persist"]
    /\ UNCHANGED <<RegVars, QueueVars, file, up, dropped, ioerrs, restarts>>

(* Line 94.                                                                *)
CpPersistOk ==
    /\ cp.pc = "persist"
    /\ file' = save_progress(save)
    /\ save_lock' = "free"
    /\ cp' = [cp EXCEPT !.pc = "sleep"]
    /\ UNCHANGED <<RegVars, QueueVars, save, up, dropped, ioerrs, restarts>>

(* Line 94 raising: caught at line 95.                                     *)
CpPersistFail(truncated) ==
    /\ cp.pc = "persist"
    /\ ioerrs < MaxIOErrors
    /\ ioerrs' = ioerrs + 1
    /\ file' = save_progress_failed(truncated)
    /\ save_lock' = "free"
    /\ cp' = [cp EXCEPT !.pc = "sleep"]
    /\ UNCHANGED <<RegVars, QueueVars, save, up, dropped, restarts>>

(* Line 99: the sleep is over, next cycle.                                 *)
CpWake ==
    /\ cp.pc = "sleep"
    /\ cp' = CpIdle
    /\ UNCHANGED <<RegVars, QueueVars, save, file, save_lock, up, dropped,
                   ioerrs, restarts>>

comment_poster ==
    \/ CpLock
    \/ CpDrainOk
    \/ \E truncated \in BOOLEAN : CpDrainFail(truncated)
    \/ CpDrainEnd
    \/ \E outcome \in {"true", "false", "raise"} : CpPost(outcome)
    \/ CpLock2
    \/ CpPersistOk
    \/ \E truncated \in BOOLEAN : CpPersistFail(truncated)
    \/ CpWake

----------------------------------------------------------------------------
(* __init__, lines 25-49.  Both worker threads are started (lines 43, 45)  *)
(* before self.video_uploading_loop is assigned (line 47), and each reads  *)
(* it first thing (lines 56, 74): a thread that reads it too early ends    *)
(* with AttributeError.                                                    *)
ThreadStart(alive_pc) == {alive_pc, "dead"}

(* The process is killed and started again on the save file it left.  A    *)
(* save file that cannot be parsed makes line 32 raise: no process then.   *)
Restart ==
    /\ restarts < MaxRestarts
    /\ file.state = "ok"
    /\ restarts' = restarts + 1
    /\ save' = from_dict(file.data)
    /\ sessions' = << >>
    /\ objs' = << >>
    /\ wfs' = << >>
    /\ video_upload_queue' = << >>
    /\ comment_post_queue' = << >>
    /\ save_lock' = "free"
    /\ \E p \in ThreadStart("get") : up' = [UpIdle EXCEPT !.pc = p]
    /\ \E p \in ThreadStart("lock1") : cp' = [CpIdle EXCEPT !.pc = p]
    /\ hres' = "ok"
    /\ UNCHANGED <<now, ticks, file, dropped, ioerrs>>

Tick(d) ==
    /\ ticks < MaxTicks
    /\ now' = now + d
    /\ ticks' = ticks + 1
    /\ UNCHANGED <<sessions, objs, wfs, QueueVars, WorkerVars, hres>>

----------------------------------------------------------------------------
(* A recorder of room 1 alone, which reports on its most recent session.   *)
SingleRoom(e) ==
    /\ e.room = 1
    /\ \/ e.type = "SessionStarted"
       \/ /\ e.type \in {"FileClosed", "SessionEnded"}
          /\ e.sid \in Keys
          /\ e.sid = sessions[Len(sessions)].sid
          /\ e.type = "SessionEnded" => objs[Lookup(e.sid)].videos > 0

(* Such a recorder when no session resumes: started, files closed, ended.  *)
Nominal(e) ==
    /\ SingleRoom(e)
    /\ e.type # "SessionStarted" => objs[Lookup(e.sid)].end_time = None

(* The state after __init__ on a path without a save file.                 *)
Init ==
    /\ now = 0
    /\ ticks = 0
    /\ sessions = << >>
    /\ objs = << >>
    /\ wfs = << >>
    /\ video_upload_queue = << >>
    /\ comment_post_queue = << >>
    /\ save = TaskSave
    /\ file = save_progress(TaskSave)
    /\ save_lock = "free"
    /\ \E p \in ThreadStart("get") : up = [UpIdle EXCEPT !.pc = p]
    /\ \E p \in ThreadStart("lock1") : cp = [CpIdle EXCEPT !.pc = p]
    /\ dropped = {}
    /\ hres = "ok"
    /\ ioerrs = 0
    /\ restarts = 0

(* The registry and the coroutines, for every event sequence, while the    *)
(* worker threads wait.                                                    *)
InitReg == Init /\ up.pc = "get" /\ cp.pc = "lock1"

NextReg ==
    \/ \E e \in Events : handle_update(e)
    \/ \E d \in TickSteps : Tick(d)
    \/ \E w \in 1 .. Len(wfs) : upload_video(w)
    \/ \E w \in 1 .. Len(wfs) : WfCancelled(w)

SpecReg == InitReg /\ [][NextReg]_vars

(* The running process under a nominal recorder: coroutines, both worker   *)
(* threads, save_progress failing or not.                                  *)
NextWork ==
    \/ \E e \in Events : Nominal(e) /\ handle_update(e)
    \/ \E w \in 1 .. Len(wfs) : upload_video(w)
    \/ \E w \in 1 .. Len(wfs) : WfCancelled(w)
    \/ video_uploader
    \/ comment_poster

SpecWork == Init /\ [][NextWork]_vars

(* Uploads that succeed and a disk that does not fail.                     *)
WorkersNoFailure ==
    \/ UpGet
    \/ \E b \in BvIds : UpUploadOk(b)
    \/ UpLock
    \/ UpPersistOk
    \/ CpLock
    \/ CpDrainOk
    \/ CpDrainEnd
    \/ \E outcome \in {"true", "false", "raise"} : CpPost(outcome)
    \/ CpLock2
    \/ CpPersistOk
    \/ CpWake

(* Sessions of one room that end, resume and end again, so that several    *)
(* coroutines and several comment tasks are alive together.                *)
NextResume ==
    \/ \E e \in Events : SingleRoom(e) /\ handle_update(e)
    \/ \E w \in 1 .. Len(wfs) : upload_video(w)
    \/ \E w \in 1 .. Len(wfs) : WfCancelled(w)
    \/ WorkersNoFailure

SpecResume == Init /\ [][NextResume]_vars

(* The process killed and restarted at any point.                          *)
NextCrash ==
    \/ \E e \in Events : Nominal(e) /\ handle_update(e)
    \/ \E w \in 1 .. Len(wfs) : upload_video(w)
    \/ \E w \in 1 .. Len(wfs) : WfCancelled(w)
    \/ WorkersNoFailure
    \/ Restart

SpecCrash == Init /\ [][NextCrash]_vars

(* The process killed and restarted at any point, on a disk that can fail  *)
(* while save_progress writes.                                             *)
NextCrashIO ==
    \/ NextCrash
    \/ \E truncated \in BOOLEAN : UpPersistFail(truncated)
    \/ UpExcept
    \/ \E truncated \in BOOLEAN : CpDrainFail(truncated)
    \/ \E truncated \in BOOLEAN : CpPersistFail(truncated)

SpecCrashIO == Init /\ [][NextCrashIO]_vars

(* The running process with threads that are scheduled: a thread that can  *)
(* take a step takes one, every external call returns, and a thread        *)
(* waiting for the save lock gets it when it is free often enough.         *)
Fairness ==
    /\ WF_vars(UpGet)
    /\ WF_vars(UpUploadFail \/ \E b \in BvIds : UpUploadOk(b))
    /\ SF_vars(UpLock)
    /\ WF_vars(UpPersistOk \/ \E truncated \in BOOLEAN : UpPersistFail(truncated))
    /\ WF_vars(UpExcept)
    /\ WF_vars(comment_poster)

SpecLive == Init /\ [][NextWork]_vars /\ Fairness

Next == NextReg \/ NextWork \/ Restart

Spec == Init /\ [][Next]_vars

----------------------------------------------------------------------------
(* The claims.                                                             *)

(* Session o belongs to the room and ended less than                       *)
(* CONTINUE_SESSION_MINUTES before now.                                    *)
EndedWithin(o, room_id) ==
    /\ objs[o].room_id = room_id
    /\ objs[o].end_time # None
    /\ now - objs[o].end_time < CONTINUE_SESSION_MINUTES * 60

(* Session o belongs to the room and ended CONTINUE_SESSION_MINUTES or     *)
(* more before now.                                                        *)
EndedBefore(o, room_id) ==
    /\ objs[o].room_id = room_id
    /\ objs[o].end_time # None
    /\ now - objs[o].end_time >= CONTINUE_SESSION_MINUTES * 60

NewStart(e) == e.type = "SessionStarted" /\ e.sid \notin Keys

(* C1: a SessionStarted with a new session_id for a room one of whose      *)
(* sessions ended less than 5 minutes ago creates no Session, maps the new *)
(* session_id to such an ended Session, and cancels that Session's pending *)
(* workflow.                                                               *)
C1_ContinuationMerges ==
    [][\A e \in Events :
          ( /\ NewStart(e)
            /\ \E o \in 1 .. Len(objs) : EndedWithin(o, e.room)
            /\ handle_update(e) )
          => /\ e.sid \in Keys'
             /\ Len(objs') = Len(objs)
             /\ EndedWithin(Lookup(e.sid)', e.room)
             /\ LET w == objs[Lookup(e.sid)'].upload_task
                IN  (w # None /\ wfs[w].pc \notin WfFinal) => wfs'[w].cancel
      ]_vars

(* C2: a SessionStarted with a new session_id for a room all of whose      *)
(* sessions ended 5 minutes or more ago registers a fresh Session and      *)
(* cancels no workflow.  (Rooms with a session that has not ended are left *)
(* to C16.)                                                                *)
C2_FreshOutsideWindow ==
    [][\A e \in Events :
          ( /\ NewStart(e)
            /\ \A o \in 1 .. Len(objs) :
                   objs[o].room_id = e.room => EndedBefore(o, e.room)
            /\ handle_update(e) )
          => /\ e.sid \in Keys'
             /\ Lookup(e.sid)' = Len(objs) + 1
             /\ Len(objs') = Len(objs) + 1
             /\ wfs' = wfs
      ]_vars
----------------------------------------------------------------------------
(* C3, C4, C5: the upload worker.                                          *)

(* The step that runs the except block of lines 64-71.                     *)
ExceptStep == up.pc = "except" /\ up'.pc = "get"

(* The step puts the task the worker holds back on the upload queue.       *)
PutBack ==
    /\ Len(video_upload_queue') = Len(video_upload_queue) + 1
    /\ TaskId(video_upload_queue'[Len(video_upload_queue')]) = TaskId(up.task)

(* C3 as claimed: every failed attempt raises trial by exactly 1, and the  *)
(* task is put back iff trial < 5 before the increment.                    *)
C3_TrialEveryFailure ==
    [][ExceptStep =>
          /\ PutBack <=> up.task.trial < 5
          /\ PutBack =>
                video_upload_queue'[Len(video_upload_queue')].trial
                    = up.task.trial + 1
          /\ ~PutBack =>
                \E d \in dropped' : /\ TaskId(d) = TaskId(up.task)
                                     /\ d.trial = up.task.trial + 1
      ]_vars

(* C3 as amended: a failed attempt with trial < 5 raises trial by exactly  *)
(* 1 and puts the task back at the tail; a failed attempt with trial = 5   *)
(* leaves trial at 5 and does not put the task back.                       *)
C3_TrialBelowLimit ==
    [][ExceptStep =>
          IF up.task.trial < 5
          THEN /\ video_upload_queue' =
                     Append(video_upload_queue,
                            [up.task EXCEPT !.trial = up.task.trial + 1])
               /\ dropped' = dropped
          ELSE /\ video_upload_queue' = video_upload_queue
               /\ up.task.trial = 5
               /\ dropped' = dropped \cup {up.task}
      ]_vars

C3_Witness ==
    /\ dropped # {}
    /\ \E i \in 1 .. Len(video_upload_queue) : video_upload_queue[i].trial > 0

(* C4 as claimed: a task whose upload call failed 5 times in a row is no   *)
(* longer on the queue.  While save_progress has not failed, trial counts  *)
(* the failures of the upload call.                                        *)
C4_DroppedAfterFive ==
    \A i \in 1 .. Len(video_upload_queue) :
        ioerrs = 0 => video_upload_queue[i].trial < 5

(* C4 as amended: the sixth consecutive failure (the one at trial = 5)     *)
(* drops the task: it is reported, it is not put back, it is never on the  *)
(* queue or in the worker's hands again, and no failed upload call changes *)
(* session_id_map.                                                         *)
C4_DroppedAfterSix ==
    /\ [](\A d \in dropped :
             /\ d.trial = 5
             /\ TaskId(up.task) # TaskId(d)
             /\ \A i \in 1 .. Len(video_upload_queue) :
                    TaskId(video_upload_queue[i]) # TaskId(d))
    /\ [][(ExceptStep /\ up.task.trial = 5) =>
             /\ up.task \in dropped'
             /\ video_upload_queue' = video_upload_queue
             /\ save' = save]_vars
    /\ [][(up.pc = "upload" /\ up'.pc = "except") => save' = save]_vars

C4_Witness == dropped # {} /\ ioerrs = 0

(* The step that ends the worker's handling of a task whose upload call    *)
(* returned a published id.                                                *)
UploadedCycleEnds ==
    /\ up.bv_id # None
    /\ up.pc \in {"persist", "except"}
    /\ up'.pc = "get"

----------------------------------------------------------------------------
(* C6: the comment worker.                                                 *)

Active == save.active_comment_tasks
ActiveIds == {TaskId(Active[i]) : i \in 1 .. Len(Active)}

(* The step that ends the post attempts of one cycle: by an exception of   *)
(* a post call, or by the removal of lines 88-93.                          *)
PostsEnd ==
    \/ cp.pc = "post" /\ cp'.pc = "sleep"
    \/ cp.pc = "lock2" /\ cp'.pc = "persist"

(* C6 as claimed: at the end of a cycle's post attempts the tasks whose    *)
(* attempt reported success in this cycle are gone from                    *)
(* active_comment_tasks, and the tasks whose attempt reported failure are  *)
(* still there.                                                            *)
C6_RemovedOnFirstSuccess ==
    [][PostsEnd =>
          \A i \in 1 .. Len(Active) :
              IF i \in cp.task_to_remove
              THEN TaskId(Active[i]) \notin ActiveIds'
              ELSE (i < cp.idx => TaskId(Active[i]) \in ActiveIds')
      ]_vars

----------------------------------------------------------------------------
(* C7: the order of the pushes of one upload_video run, read off the       *)
(* queues while no worker has taken anything from them.                    *)
EarlyOf(w) ==
    {i \in 1 .. Len(video_upload_queue) :
        video_upload_queue[i].wf = w /\ ~video_upload_queue[i].danmaku}
DanmakuOf(w) ==
    {i \in 1 .. Len(video_upload_queue) :
        video_upload_queue[i].wf = w /\ video_upload_queue[i].danmaku}
CommentsOf(w) ==
    {j \in 1 .. Len(comment_post_queue) : comment_post_queue[j].wf = w}

(* C7: a run pushes at most one CommentTask, of its own session; with an   *)
(* early UploadTask the CommentTask is derived from it, pushed after the   *)
(* sleep and before the danmaku UploadTask; without one it is derived from *)
(* the danmaku UploadTask and pushed after it.                             *)
C7_CommentAfterUpload ==
    \A w \in 1 .. Len(wfs) :
        /\ Cardinality(CommentsOf(w)) <= 1
        /\ Cardinality(EarlyOf(w)) <= 1
        /\ Cardinality(DanmakuOf(w)) <= 1
        /\ wfs[w].early <=> EarlyOf(w) # {}
        /\ \A j \in CommentsOf(w) :
              /\ comment_post_queue[j].session_id
                    = objs[wfs[w].obj].session_id
              /\ IF EarlyOf(w) # {}
                 THEN /\ ~comment_post_queue[j].danmaku
                      /\ wfs[w].pc \notin {"start", "gen_early", "sleep"}
                 ELSE /\ comment_post_queue[j].danmaku
                      /\ DanmakuOf(w) # {}
        /\ (EarlyOf(w) # {} /\ DanmakuOf(w) # {}) => CommentsOf(w) # {}

C7_Witness ==
    /\ Len(wfs) = 2
    /\ wfs[1].pc = "done" /\ wfs[1].early
    /\ wfs[2].pc = "done" /\ ~wfs[2].early
    /\ Cardinality(CommentsOf(1)) = 1
    /\ Cardinality(CommentsOf(2)) = 1

----------------------------------------------------------------------------
(* C8: a restart keeps the upload tasks that were waiting.                 *)
C8_RestartKeepsQueuedUploads ==
    [][restarts' # restarts =>
          \A i \in 1 .. Len(video_upload_queue) :
              \E j \in 1 .. Len(video_upload_queue') :
                  TaskId(video_upload_queue'[j])
                      = TaskId(video_upload_queue[i])
      ]_vars

----------------------------------------------------------------------------
(* C9: cancellation.                                                       *)

(* The step in which handle_update requests the cancellation of a          *)
(* coroutine, or in which the cancellation lands.                          *)
CancelStep ==
    \E w \in 1 .. Len(wfs) :
        \/ ~wfs[w].cancel /\ wfs'[w].cancel
        \/ wfs[w].pc # "cancelled" /\ wfs'[w].pc = "cancelled"

(* The step appends a new task of coroutine w to one of the queues.        *)
PushBy(w) ==
    \/ /\ Len(video_upload_queue') = Len(video_upload_queue) + 1
       /\ video_upload_queue'[Len(video_upload_queue')].wf = w
       /\ video_upload_queue'[Len(video_upload_queue')].trial = 0
    \/ /\ Len(comment_post_queue') = Len(comment_post_queue) + 1
       /\ comment_post_queue'[Len(comment_post_queue')].wf = w

(* C9: requesting and delivering a cancellation leave both queues and      *)
(* active_comment_tasks as they are, and a cancelled coroutine stays       *)
(* cancelled and pushes nothing.                                           *)
C9_CancelKeepsQueuedWork ==
    /\ [][CancelStep =>
             UNCHANGED <<video_upload_queue, comment_post_queue, save>>]_vars
    /\ [][\A w \in 1 .. Len(wfs) :
             (wfs[w].pc = "cancelled" /\ restarts' = restarts) =>
                 wfs'[w].pc = "cancelled" /\ ~PushBy(w)]_vars

C9_Witness ==
    \E w \in 1 .. Len(wfs) :
        /\ wfs[w].pc = "cancelled"
        /\ \E i \in 1 .. Len(video_upload_queue) :
              video_upload_queue[i].wf = w
        /\ \E j \in 1 .. Len(Active) : Active[j].wf = w

----------------------------------------------------------------------------
(* C10: an event other than SessionStarted for a session_id the registry   *)
(* does not hold changes nothing but the report of line 187.               *)
C10_UnknownSessionDropped ==
    [][\A e \in Events :
          (e.type # "SessionStarted" /\ e.sid \notin Keys /\ handle_update(e))
          => /\ UNCHANGED <<sessions, objs, wfs, video_upload_queue,
                            comment_post_queue>>
             /\ hres' = "dropped"
      ]_vars

C10_Witness ==
    /\ hres = "dropped"
    /\ Len(sessions) > 0
    /\ \E w \in 1 .. Len(wfs) : wfs[w].pc \in WfSuspended
    /\ video_upload_queue # << >>
----------------------------------------------------------------------------
(* C11, C12: the upload queue.                                             *)

(* The identities of the UploadTask objects coroutines can create.         *)
UploadTaskIds == (0 .. MaxRestarts) \X (1 .. MaxWorkflows) \X BOOLEAN

InQueue(id) ==
    {i \in 1 .. Len(video_upload_queue) : TaskId(video_upload_queue[i]) = id}
Held(id) == up.pc \notin {"get", "dead"} /\ TaskId(up.task) = id
Dropped(id) == \E d \in dropped : TaskId(d) = id

(* C11: an UploadTask is never in two places at once: the number of its    *)
(* entries in the upload queue, plus one if the worker holds it, plus one  *)
(* if it was terminally dropped, is at most 1.                             *)
(* A task the worker lets go without putting it back (its critical        *)
(* section completed, or it was dropped) is finished: an entry that        *)
(* appears in the queue for a task the worker does not hold is a first     *)
(* entry, with trial 0.                                                    *)
C11_OneRetryCycle ==
    /\ [](\A id \in UploadTaskIds :
             Cardinality(InQueue(id))
                 + (IF Held(id) THEN 1 ELSE 0)
                 + (IF Dropped(id) THEN 1 ELSE 0) <= 1)
    /\ [][\A id \in UploadTaskIds :
             (InQueue(id) = {} /\ ~Held(id) /\ restarts' = restarts) =>
                 /\ ~Held(id)'
                 /\ \A i \in InQueue(id)' : video_upload_queue'[i].trial = 0
                 /\ Dropped(id) => InQueue(id)' = {}]_vars
    /\ [][(up.pc = "persist" /\ up'.pc = "get") =>
             /\ InQueue(TaskId(up.task))' = {}
             /\ ~Dropped(TaskId(up.task))']_vars

C11_Witness ==
    /\ up.pc = "except"
    /\ up.task.trial > 0
    /\ \E i \in 1 .. Len(video_upload_queue) :
          /\ video_upload_queue[i].trial > 0
          /\ TaskId(video_upload_queue[i]) # TaskId(up.task)

(* C12: the upload queue is first-in first-out and a failed task goes to   *)
(* its tail: the worker takes the head, a put-back leaves every waiting    *)
(* task in front of the failed one, and no step reorders the queue.  So    *)
(* every task waiting when X fails is taken before X is taken again.       *)
C12_RequeueAtTail ==
    /\ [][(ExceptStep /\ video_upload_queue' # video_upload_queue) =>
             /\ Len(video_upload_queue') = Len(video_upload_queue) + 1
             /\ SubSeq(video_upload_queue', 1, Len(video_upload_queue))
                   = video_upload_queue
             /\ PutBack]_vars
    /\ [][(up.pc = "get" /\ up'.pc = "upload") =>
             /\ up'.task = Head(video_upload_queue)
             /\ video_upload_queue' = Tail(video_upload_queue)]_vars
    /\ [][restarts' = restarts =>
             \/ video_upload_queue' = video_upload_queue
             \/ /\ video_upload_queue # << >>
                /\ video_upload_queue' = Tail(video_upload_queue)
             \/ /\ Len(video_upload_queue') = Len(video_upload_queue) + 1
                /\ SubSeq(video_upload_queue', 1, Len(video_upload_queue))
                      = video_upload_queue]_vars

(* The early task failed once while the danmaku task was waiting, and the  *)
(* worker now attempts the danmaku task with the early task behind it.     *)
C12_Witness ==
    /\ up.pc = "upload"
    /\ up.task.danmaku /\ up.task.trial = 0
    /\ Len(video_upload_queue) = 1
    /\ ~video_upload_queue[1].danmaku
    /\ video_upload_queue[1].trial = 1
    /\ video_upload_queue[1].wf = up.task.wf
----------------------------------------------------------------------------
(* C13: every queued upload leaves the system.                             *)

(* The map holds a published id for the session of task id.                *)
Recorded(id) ==
    /\ id[2] <= Len(wfs)
    /\ save.session_id_map[objs[wfs[id[2]].obj].session_id] # None

(* C13: with upload calls that return and threads that are scheduled,      *)
(* every UploadTask put on the upload queue is eventually neither on the   *)
(* queue nor in the worker's hands, with its session recorded in           *)
(* session_id_map or the task dropped; and no task is put back more than   *)
(* 5 times.                                                                *)
C13_EveryUploadLeaves ==
    /\ [](\A i \in 1 .. Len(video_upload_queue) :
             video_upload_queue[i].trial <= 5)
    /\ \A id \in UploadTaskIds :
          (InQueue(id) # {}) ~>
              ( /\ InQueue(id) = {}
                /\ ~Held(id)
                /\ Recorded(id) \/ Dropped(id) )
----------------------------------------------------------------------------
(* C14: when the post attempts of a cycle end, by the removal of lines     *)
(* 88-93 or by an exception of a post call, active_comment_tasks is the    *)
(* list it was without the tasks whose attempt reported success in this    *)
(* cycle, in the same order; and an exception of a post call does not end  *)
(* the worker.                                                             *)
C14_ExactRemovalPerCycle ==
    /\ [][PostsEnd =>
             save'.active_comment_tasks
                 = Without(Active, 1, cp.task_to_remove)]_vars
    /\ [][cp.pc = "post" => cp'.pc # "dead"]_vars
----------------------------------------------------------------------------
(* C15: the worker threads mutate self.save and call save_progress only    *)
(* inside a critical section of save_lock: the lock is held exactly while  *)
(* a thread is inside one of the with blocks, it is taken only when free,  *)
(* self.save changes only in a step that takes the lock or is taken with   *)
(* the lock held, and the save file changes only with the lock held.       *)
C15_SaveStateUnderLock ==
    /\ [](save_lock = "uploader" <=> up.pc = "persist")
    /\ [](save_lock = "commenter" <=> cp.pc \in {"drain", "persist"})
    /\ [][save_lock' # save_lock =>
             save_lock = "free" \/ save_lock' = "free"]_vars
    /\ [][save' # save =>
             \/ save_lock = "free" /\ save_lock' # "free"
             \/ save_lock = "commenter" /\ cp.pc = "drain"]_vars
    /\ [][file' # file => save_lock # "free"]_vars

(* The uploader waits at line 61 while the commenter is inside the with    *)
(* block of line 88 with the list changed and not yet persisted.           *)
C15_Witness ==
    /\ up.pc = "lock"
    /\ cp.pc = "persist"
    /\ save_lock = "commenter"
    /\ file.state = "ok"
    /\ from_dict(file.data) # save
----------------------------------------------------------------------------
(* C16: a SessionStarted with a new session_id for a room whose registered *)
(* sessions have not ended (at least one is registered) completes without  *)
(* error and registers a fresh Session under the new session_id.           *)
C16_FreshWhileUnended ==
    [][\A e \in Events :
          ( /\ NewStart(e)
            /\ \E o \in 1 .. Len(objs) : objs[o].room_id = e.room
            /\ \A o \in 1 .. Len(objs) :
                   objs[o].room_id = e.room => objs[o].end_time = None
            /\ handle_update(e) )
          => /\ hres' = "ok"
             /\ e.sid \in Keys'
             /\ Lookup(e.sid)' = Len(objs) + 1
             /\ Len(objs') = Len(objs) + 1
      ]_vars
----------------------------------------------------------------------------
(* C17: whenever the save lock is free, the save file holds the in-memory  *)
(* SaveState, and a restart at such a point reloads the same               *)
(* session_id_map and the same active_comment_tasks.                       *)
C17_FileEqualsMemory ==
    /\ [](save_lock = "free" =>
             file.state = "ok" /\ from_dict(file.data) = save)
    /\ [][(restarts' # restarts /\ save_lock = "free") => save' = save]_vars
----------------------------------------------------------------------------
(* C18: configuration errors.                                              *)

(* The room of coroutine w's session is not listed in the configuration,   *)
(* or is listed without an uploader.                                       *)
Unconfigured(w) ==
    LET room_config == FindRoomConfig(objs[wfs[w].obj].room_id)
    IN  \/ room_config = None
        \/ ConfigRooms[room_config].uploader = None

(* C18: a coroutine of an unconfigured room never reaches an await and     *)
(* has no task on either queue; the step in which it ends changes nothing  *)
(* but its own position, starts no coroutine and leaves every other        *)
(* coroutine as it is; and once ended it stays ended.                      *)
C18_ConfigErrorAborts ==
    /\ [](\A w \in 1 .. Len(wfs) :
             Unconfigured(w) =>
                 /\ wfs[w].pc \in {"start", "aborted"}
                 /\ ~wfs[w].early
                 /\ EarlyOf(w) = {} /\ DanmakuOf(w) = {}
                 /\ CommentsOf(w) = {})
    /\ [][\A w \in 1 .. Len(wfs) :
             (Unconfigured(w) /\ wfs[w].pc = "start" /\ wfs'[w].pc # "start")
             => /\ wfs' = [wfs EXCEPT ![w].pc = "aborted"]
                /\ UNCHANGED <<sessions, objs, video_upload_queue,
                               comment_post_queue, save, file>>]_vars
    /\ [][\A w \in 1 .. Len(wfs) :
             wfs[w].pc = "aborted" =>
                 wfs'[w].pc = "aborted" /\ ~PushBy(w)]_vars

(* A coroutine of the room without configuration and one of the room       *)
(* without uploader have ended.                                            *)
C18_Witness ==
    /\ Len(wfs) = 2
    /\ wfs[1].pc = "aborted" /\ wfs[2].pc = "aborted"
    /\ FindRoomConfig(objs[wfs[1].obj].room_id)
          # FindRoomConfig(objs[wfs[2].obj].room_id)
----------------------------------------------------------------------------
(* C19: the except block puts a task back only when the upload call        *)
(* failed: a task whose upload call returned a published id is not put     *)
(* back on the upload queue, so the worker never takes it again.           *)
C19_NoRequeueAfterPublish ==
    [][(ExceptStep /\ up.bv_id # None) =>
          /\ ~PutBack
          /\ video_upload_queue' = video_upload_queue]_vars
----------------------------------------------------------------------------
(* C20: one live coroutine per Session.                                    *)

(* The coroutines of Session o that have not finished and whose            *)
(* cancellation was not requested.                                         *)
LiveWorkflows(o) ==
    {w \in 1 .. Len(wfs) :
        wfs[w].obj = o /\ wfs[w].pc \notin WfFinal /\ ~wfs[w].cancel}

(* C20: every Session has at most one live coroutine, and the handle the   *)
(* Session stores refers to it.                                            *)
C20_OneLiveWorkflow ==
    \A o \in 1 .. Len(objs) :
        /\ Cardinality(LiveWorkflows(o)) <= 1
        /\ \A w \in LiveWorkflows(o) : objs[o].upload_task = w
====
